---- MODULE Spec2Model ----
(***************************************************************************)
(* A model of the dashboard's persistence layer (DB/schema.py, DB/crud.py, *)
(* DB/load_data.py) and of its assistant facade (ai_helper.py).            *)
(*                                                                         *)
(* A table is the sequence of its rows in rowid order.  A row carries its  *)
(* natural key (pk), the one column an update call may change (mutable:    *)
(* status for incidents and tickets, owner for datasets) and one of the    *)
(* columns no call ever changes (other).                                   *)
(***************************************************************************)
EXTENDS Integers, Sequences, FiniteSets, TLC

VARIABLES db, last, ai

vars == <<db, last, ai>>

(* ------------------------------ bounds --------------------------------- *)

\* Rows the three tables hold together.
MaxRows == 2
\* Rows of a batch file.
MaxFileRows == 2
\* Words of a question put to the assistant.
MaxWords == 2

(* ------------------------------ schema --------------------------------- *)

\* SQL NULL, Python None, pandas NaN.
NULL == "<NULL>"

Tables == {"cyber_incidents", "datasets_metadata", "it_tickets"}

PK_COL == [cyber_incidents |-> "incident_id",
           datasets_metadata |-> "dataset_name",
           it_tickets |-> "ticket_id"]

MutVals == {"Open", "Closed"}
OtherVals == {"x", "y"}

\* The attribute values the create calls are given.
CallAttrs == {[mutable |-> "Open", other |-> "x"],
              [mutable |-> "Closed", other |-> "y"]}

\* Keys the single-row calls are given (NULL: None passed as the key).
CallKeys == {"7", "A", NULL}

StoredRow(k, m, o) == [pk |-> k, mutable |-> m, other |-> o]

TotalRows(d) == Len(d["cyber_incidents"]) + Len(d["datasets_metadata"])
                  + Len(d["it_tickets"])

Keys(rows) == {rows[i].pk : i \in 1..Len(rows)}

\* The constraint of a schema whose key column is NOT NULL but not UNIQUE.
IntegrityOK_NotNullOnly(rows, row) == row.pk # NULL

\* CREATE TABLE ... <key> TEXT NOT NULL UNIQUE: the constraint an INSERT of
\* `row` into `rows` must meet, or sqlite3 raises IntegrityError.
IntegrityOK(rows, row) == row.pk # NULL /\ row.pk \notin Keys(rows)

(* ------------------------------- crud ---------------------------------- *)

\* The query without its WHERE clause: true of any table that holds a row.
RowExists_NoWhere(rows, k) == rows # <<>>

\* SELECT 1 FROM t WHERE key = ? LIMIT 1; fetchone() is not None.
\* (key = NULL is never true in SQL.)
RowExists(rows, k) == k # NULL /\ \E i \in 1..Len(rows) : rows[i].pk = k

\* Each over the rows of its own table.
incident_exists(rows, k) == RowExists(rows, k)
dataset_exists(rows, k) == RowExists(rows, k)
ticket_exists(rows, k) == RowExists(rows, k)

\* The exists call of table t, on that table holding `rows`.
Exists(t, rows, k) ==
  CASE t = "cyber_incidents" -> incident_exists(rows, k)
    [] t = "datasets_metadata" -> dataset_exists(rows, k)
    [] t = "it_tickets" -> ticket_exists(rows, k)

\* INSERT INTO t (...) VALUES (...): the new row gets the next rowid.
InsertRow(rows, row) == Append(rows, row)

\* The UPDATE without its WHERE clause: every row is set.
UpdateRows_NoWhere(rows, k, v) ==
  [i \in 1..Len(rows) |-> [rows[i] EXCEPT !.mutable = v]]

\* UPDATE t SET <mutable> = ? WHERE key = ?
UpdateRows(rows, k, v) ==
  [i \in 1..Len(rows) |->
     IF k # NULL /\ rows[i].pk = k THEN [rows[i] EXCEPT !.mutable = v]
     ELSE rows[i]]

\* DELETE FROM t WHERE key = ?
DeleteRows(rows, k) ==
  LET Keep(r) == ~(k # NULL /\ r.pk = k) IN SelectSeq(rows, Keep)

\* cursor.rowcount after the UPDATE or DELETE: the rows the WHERE matched.
RowCount(rows, k) ==
  Cardinality({i \in 1..Len(rows) : k # NULL /\ rows[i].pk = k})

NoFile == [exists |-> FALSE, rows |-> <<>>]
NoRow == StoredRow(NULL, NULL, NULL)

\* What the last call was, what it was given, what it returned, and the
\* table it worked on as it was before the call.
Record(op, t, k, row, v, file, status, ins, skp, pre) ==
  [op |-> op, table |-> t, key |-> k, row |-> row, newval |-> v,
   file |-> file, status |-> status, inserted |-> ins, skipped |-> skp,
   pre |-> pre]

\* create_incident / create_dataset / create_ticket: try the INSERT and
\* commit; IntegrityError is caught and reported as (False, message).
Create(t, row) ==
  /\ IntegrityOK(db[t], row) => TotalRows(db) < MaxRows
  /\ IF IntegrityOK(db[t], row)
       THEN /\ db' = [db EXCEPT ![t] = InsertRow(db[t], row)]
            /\ last' = Record("create", t, row.pk, row, NULL, NoFile,
                              "true", 0, 0, db[t])
       ELSE /\ db' = db
            /\ last' = Record("create", t, row.pk, row, NULL, NoFile,
                              "false", 0, 0, db[t])
  /\ UNCHANGED ai

create_incident ==
  \E k \in CallKeys, a \in CallAttrs :
    Create("cyber_incidents", StoredRow(k, a.mutable, a.other))

create_dataset ==
  \E k \in CallKeys, a \in CallAttrs :
    Create("datasets_metadata", StoredRow(k, a.mutable, a.other))

create_ticket ==
  \E k \in CallKeys, a \in CallAttrs :
    Create("it_tickets", StoredRow(k, a.mutable, a.other))

\* update_incident_status / update_dataset_owner / update_ticket_status.
Update(t, k, v) ==
  /\ db' = [db EXCEPT ![t] = UpdateRows(db[t], k, v)]
  /\ last' = Record("update", t, k, NoRow, v, NoFile,
                    IF RowCount(db[t], k) = 0 THEN "false" ELSE "true",
                    0, 0, db[t])
  /\ UNCHANGED ai

update_incident_status ==
  \E k \in CallKeys, v \in MutVals : Update("cyber_incidents", k, v)

update_dataset_owner ==
  \E k \in CallKeys, v \in MutVals : Update("datasets_metadata", k, v)

update_ticket_status ==
  \E k \in CallKeys, v \in MutVals : Update("it_tickets", k, v)

\* delete_incident / delete_dataset / delete_ticket.
Delete(t, k) ==
  /\ db' = [db EXCEPT ![t] = DeleteRows(db[t], k)]
  /\ last' = Record("delete", t, k, NoRow, NULL, NoFile,
                    IF RowCount(db[t], k) = 0 THEN "false" ELSE "true",
                    0, 0, db[t])
  /\ UNCHANGED ai

delete_incident == \E k \in CallKeys : Delete("cyber_incidents", k)
delete_dataset == \E k \in CallKeys : Delete("datasets_metadata", k)
delete_ticket == \E k \in CallKeys : Delete("it_tickets", k)

(* ----------------------------- load_data ------------------------------- *)

\* The cells a key column of a batch file is drawn from ("": an empty cell).
KeyCells == {"", "7", "7.0", "A", "True"}

\* pandas' default NA cell, integer and float literals, and true_values.
IsNA(c) == c = ""
IntLits == {"7"}
FloatLits == {"7.0"}
BoolLits == {"True"}

\* The number a numeric literal denotes, and whether a bool literal is true.
NumOf(c) == CASE c = "7" -> 7 [] c = "7.0" -> 7 [] OTHER -> 0
BoolOf(c) == IF c = "True" THEN 1 ELSE 0

\* str() of a small non-negative integer.
DecStr(n) ==
  CASE n = 0 -> "0" [] n = 1 -> "1" [] n = 2 -> "2" [] n = 3 -> "3"
    [] n = 4 -> "4" [] n = 5 -> "5" [] n = 6 -> "6" [] n = 7 -> "7"
    [] n = 8 -> "8" [] n = 9 -> "9"

FileRow(c, m, o) == [pk |-> c, mutable |-> m, other |-> o]

\* The attribute values of the i-th row of a batch file: neighbouring rows
\* differ in both columns.
RowAttrs(i) == IF i % 2 = 1 THEN [mutable |-> "Open", other |-> "x"]
               ELSE [mutable |-> "Closed", other |-> "y"]

\* The batch files: every column of key cells of up to MaxFileRows rows, and
\* the file that does not exist.
KeyColumns == UNION {[1..k -> KeyCells] : k \in 0..MaxFileRows}

FileOf(col) ==
  [exists |-> TRUE,
   rows |-> [i \in 1..Len(col) |->
               FileRow(col[i], RowAttrs(i).mutable, RowAttrs(i).other)]]

Files == {FileOf(col) : col \in KeyColumns} \cup {NoFile}

\* pd.read_csv's inference of the key column's dtype: int64 when every cell
\* is an integer literal, else float64 when every cell is numeric or empty,
\* else bool when every cell is a bool literal or empty, else object (the
\* cells kept as the strings they are).
ColumnDtype(rows) ==
  LET cells == {rows[i].pk : i \in 1..Len(rows)} IN
  CASE rows = <<>> -> "object"
    [] rows # <<>> /\ cells \subseteq IntLits -> "int64"
    [] rows # <<>> /\ ~(cells \subseteq IntLits)
         /\ \A c \in cells : c \in IntLits \cup FloatLits \/ IsNA(c) -> "float64"
    [] rows # <<>> /\ ~(\A c \in cells : c \in IntLits \cup FloatLits \/ IsNA(c))
         /\ \A c \in cells : c \in BoolLits \/ IsNA(c) -> "bool"
    [] OTHER -> "object"

NaN == [t |-> "nan", n |-> 0, s |-> ""]

\* The value read_csv gives a key cell of a column of dtype `dt`.
ParseCell(dt, c) ==
  CASE IsNA(c) -> NaN
    [] ~IsNA(c) /\ dt = "int64" -> [t |-> "int", n |-> NumOf(c), s |-> ""]
    [] ~IsNA(c) /\ dt = "float64" -> [t |-> "float", n |-> NumOf(c), s |-> ""]
    [] ~IsNA(c) /\ dt = "bool" -> [t |-> "bool", n |-> BoolOf(c), s |-> ""]
    [] OTHER -> [t |-> "str", n |-> 0, s |-> c]

\* df = pd.read_csv(csv_path): the frame, its key column parsed.
read_csv(rows) ==
  LET dt == ColumnDtype(rows) IN
  [i \in 1..Len(rows) |-> [rows[i] EXCEPT !.pk = ParseCell(dt, rows[i].pk)]]

\* df.dropna(subset=[pk])
dropna(df) == LET NotNull(r) == r.pk # NaN IN SelectSeq(df, NotNull)

\* The rows of a frame whose key no earlier row has, in frame order.
RECURSIVE KeepFirst(_)
KeepFirst(df) ==
  IF df = <<>> THEN <<>>
  ELSE LET front == KeepFirst(SubSeq(df, 1, Len(df) - 1))
           r == df[Len(df)]
       IN IF \E i \in 1..Len(front) : front[i].pk = r.pk
            THEN front
            ELSE Append(front, r)

\* keep="last": the rows whose key no later row has.
RECURSIVE drop_duplicates_KeepLast(_)
drop_duplicates_KeepLast(df) ==
  IF df = <<>> THEN <<>>
  ELSE LET back == drop_duplicates_KeepLast(Tail(df))
       IN IF \E i \in 1..Len(back) : back[i].pk = df[1].pk
            THEN back
            ELSE <<df[1]>> \o back

\* df.drop_duplicates(subset=[pk], keep="first")
drop_duplicates(df) == KeepFirst(df)

\* Series.astype(str) on a key value: Python's str().
PyStr(v) ==
  CASE v.t = "int" -> DecStr(v.n)
    [] v.t = "float" -> DecStr(v.n) \o ".0"
    [] v.t = "bool" -> IF v.n = 1 THEN "True" ELSE "False"
    [] v.t = "str" -> v.s
    [] OTHER -> "nan"

\* What a TEXT column stores for a key value sqlite3 binds: an int or a
\* bool (an int to sqlite3) as its decimal digits, a float as SQLite's
\* text of a REAL, a str as it is, NaN as NULL.
SqlText(v) ==
  CASE v.t = "int" -> DecStr(v.n)
    [] v.t = "float" -> DecStr(v.n) \o ".0"
    [] v.t = "bool" -> DecStr(v.n)
    [] v.t = "str" -> v.s
    [] OTHER -> NULL

\* _get_existing_keys: the table's keys that are not None.
_get_existing_keys(rows) == {k \in Keys(rows) : k # NULL}

\* mask_new = ~df[pk].astype(str).isin({str(x) for x in existing})
mask_new(df, existing) ==
  [i \in 1..Len(df) |-> PyStr(df[i].pk) \notin existing]

\* df[mask_new]
NewRows(df, mask) ==
  LET idx == {i \in 1..Len(df) : mask[i]}
      RECURSIVE Pick(_)
      Pick(n) == IF n = 0 THEN <<>>
                 ELSE IF n \in idx THEN Append(Pick(n - 1), df[n])
                 ELSE Pick(n - 1)
  IN Pick(Len(df))

\* The sum of the mask itself, its negation forgotten.
SkippedCount_Unnegated(df, mask) == Cardinality({i \in 1..Len(df) : mask[i]})

\* skipped = int((~mask_new).sum())
SkippedCount(df, mask) == Cardinality({i \in 1..Len(df) : ~mask[i]})

\* df_new.to_sql(table, conn, if_exists="append", index=False): the rows are
\* inserted in frame order in one transaction; a row the schema's
\* constraint refuses raises IntegrityError and the transaction is rolled
\* back.
RECURSIVE executemany(_, _)
executemany(rows, df_new) ==
  IF df_new = <<>> THEN [ok |-> TRUE, rows |-> rows]
  ELSE LET r == StoredRow(SqlText(df_new[1].pk), df_new[1].mutable,
                          df_new[1].other)
       IN IF IntegrityOK(rows, r)
            THEN executemany(InsertRow(rows, r), Tail(df_new))
            ELSE [ok |-> FALSE, rows |-> rows]

\* if_exists="replace": the table is dropped and holds the frame alone.
to_sql_Replace(rows, df_new) == executemany(<<>>, df_new)

to_sql(rows, df_new) == executemany(rows, df_new)

\* The frame load_csv_to_table holds after its two cleaning steps, for each
\* batch file.
CleanFrame == [f \in Files |-> drop_duplicates(dropna(read_csv(f.rows)))]

\* load_csv_to_table(db, csv_path, table_name).  Each of the three tables
\* has its key column in PK_COL, so the append-everything branch taken for a
\* table without one is never entered.
load_csv_to_table(file, t) ==
  LET df == CleanFrame[file]
      existing == _get_existing_keys(db[t])
      mask == mask_new(df, existing)
      skipped == SkippedCount(df, mask)
      df_new == NewRows(df, mask)
      res == to_sql(db[t], df_new)
  IN /\ t \in DOMAIN PK_COL
     /\ IF ~file.exists
          THEN /\ db' = db
               /\ last' = Record("load", t, NULL, NoRow, NULL, file,
                                 "returned", 0, 0, db[t])
          ELSE /\ TotalRows(db) + Len(df_new) <= MaxRows
               /\ IF df_new # <<>> /\ ~res.ok
                    THEN /\ db' = db
                         /\ last' = Record("load", t, NULL, NoRow, NULL, file,
                                           "IntegrityError", 0, 0, db[t])
                    ELSE /\ db' = [db EXCEPT ![t] = res.rows]
                         /\ last' = Record("load", t, NULL, NoRow, NULL, file,
                                           "returned", Len(df_new), skipped,
                                           db[t])
     /\ UNCHANGED ai

LoadCsv == \E f \in Files, t \in Tables : load_csv_to_table(f, t)

(* ------------------------------ ai_helper ------------------------------ *)

\* A text is the sequence of its pieces; a question is the sequence of its
\* words.  The fixed pieces of the answers:
PREAMBLE == "Offline assistant mode (no usable AI API call succeeded)."
PRIORITISATION == "\nPrioritisation advice:"
PHISHING == "\nPhishing guidance:"
BACKLOG == "\nBacklog / bottleneck analysis:"
GENERAL == "\nGeneral guidance:"
DISCLAIMER == "\nIn a full deployment, this panel sends the same question"
ERR_PREFIX == "Error calling OpenRouter API"
NO_CHOICES == "AI API returned no choices. Raw: "
EMPTY_MESSAGE == "AI API returned an empty message."
SPACE == " "

Vocabulary == {"What", "PRIORITISE", "first", "Phishing", "backlog",
               "bottleneck"}

Questions == UNION {[1..k -> Vocabulary] : k \in 0..MaxWords}

\* context_text: None, the empty string, or a summary.
Contexts == {NULL, "", "3 incidents open"}

\* OPENROUTER_API_KEY: unset, empty, or set.
ApiKeys == {NULL, "", "sk-or-key"}

\* str.lower() of a word.
Lower(w) ==
  CASE w = "What" -> "what"
    [] w = "PRIORITISE" -> "prioritise"
    [] w = "Phishing" -> "phishing"
    [] OTHER -> w

\* kw in w, for the keywords _offline_response looks for.
Contains(w, kw) ==
  \/ w = "prioritise" /\ kw = "priorit"
  \/ w = "first" /\ kw = "first"
  \/ w = "phishing" /\ kw = "phishing"
  \/ w = "backlog" /\ kw = "backlog"
  \/ w = "bottleneck" /\ kw = "bottleneck"

\* kw in msg: no keyword holds a space, so it lies within one word.
InMsg(kw, msg) == \E i \in 1..Len(msg) : Contains(msg[i], kw)

\* Python's truth of an Optional[str].
Truthy(x) == x # NULL /\ x # ""

\* _offline_response(user_message, context_text): the parts it joins.
_offline_response(user_message, context_text) ==
  LET p1 == <<PREAMBLE>>
      p2 == IF Truthy(context_text)
              THEN Append(p1, "\nIncident summary:\n" \o context_text)
              ELSE p1
      msg == [i \in 1..Len(user_message) |-> Lower(user_message[i])]
      p3 == IF InMsg("priorit", msg) \/ InMsg("first", msg)
              THEN Append(p2, PRIORITISATION) ELSE p2
      p4 == IF InMsg("phishing", msg) THEN Append(p3, PHISHING) ELSE p3
      p5 == IF InMsg("backlog", msg) \/ InMsg("bottleneck", msg)
              THEN Append(p4, BACKLOG) ELSE p4
      p6 == IF Len(p5) = 1 THEN Append(p5, GENERAL) ELSE p5
  IN Append(p6, DISCLAIMER)

\* What the one POST may come to: an exception of requests (no network, a
\* timeout), or a response with a status and a body; the body no JSON, or
\* JSON whose "choices" is missing, empty, or holds a first choice whose
\* message's "content" is missing, null, a number or a string.  A number
\* is "zero" when Python holds it false (0, 0.0) and "number" otherwise.
StrContents == {<<>>, <<SPACE>>, <<"Patch now.">>,
                <<SPACE, "Patch now.", SPACE>>,
                <<ERR_PREFIX, " is what my script prints">>}

NoContent == <<>>

Remotes ==
  {[kind |-> "exception", status |-> 0, body |-> "none", content |-> "none",
    text |-> NoContent]}
  \cup {[kind |-> "response", status |-> st, body |-> "json",
         content |-> "str", text |-> <<"Patch now.">>] : st \in {401, 500}}
  \cup {[kind |-> "response", status |-> 200, body |-> b, content |-> "none",
         text |-> NoContent] : b \in {"not_json", "no_choices", "empty_choices"}}
  \cup {[kind |-> "response", status |-> 200, body |-> "json", content |-> c,
         text |-> NoContent] : c \in {"missing", "null", "zero", "number"}}
  \cup {[kind |-> "response", status |-> 200, body |-> "json",
         content |-> "str", text |-> x] : x \in StrContents}

IsSpace(piece) == piece = SPACE

\* str.strip()
RECURSIVE strip(_)
strip(x) ==
  IF x = <<>> THEN <<>>
  ELSE IF IsSpace(Head(x)) THEN strip(Tail(x))
  ELSE IF IsSpace(x[Len(x)]) THEN strip(SubSeq(x, 1, Len(x) - 1))
  ELSE x

\* str.startswith
startswith(x, prefix) == x # <<>> /\ Head(x) = prefix

None == [none |-> TRUE, text |-> <<>>]
Str(x) == [none |-> FALSE, text |-> x]

\* _openrouter_response(user_message, context_text), the key and the
\* outcome of the POST given: None without a key, else a text.  The
\* content's truth is tested before strip() is called on it: a content
\* Python holds false (missing, null, 0, 0.0, "") gives the empty-message
\* text, and only a true content that is no string raises the
\* AttributeError the except clause turns into the error text.
_openrouter_response(api_key, remote) ==
  IF ~Truthy(api_key) THEN None
  ELSE IF remote.kind = "exception"
    THEN Str(<<ERR_PREFIX, ": ", "ConnectionError">>)
  ELSE IF remote.status # 200
    THEN Str(<<ERR_PREFIX, ": HTTP ", "status | body">>)
  ELSE IF remote.body = "not_json"
    THEN Str(<<ERR_PREFIX, ": ", "JSONDecodeError">>)
  ELSE IF remote.body \in {"no_choices", "empty_choices"}
    THEN Str(<<NO_CHOICES, "data">>)
  ELSE IF remote.content \in {"missing", "null", "zero"}
    THEN Str(<<EMPTY_MESSAGE>>)
  ELSE IF remote.content = "number"
    THEN Str(<<ERR_PREFIX, ": ", "AttributeError">>)
  ELSE IF remote.text # <<>> THEN Str(strip(remote.text))
  ELSE Str(<<EMPTY_MESSAGE>>)

\* ask_cyber_assistant(user_message, context_text): the text returned.
AskResult(user_message, context_text, api_key, remote) ==
  LET online_answer == _openrouter_response(api_key, remote) IN
  IF online_answer.none
    THEN _offline_response(user_message, context_text)
  ELSE IF startswith(online_answer.text, ERR_PREFIX)
    THEN online_answer.text \o <<"\n\n">>
           \o _offline_response(user_message, context_text)
  ELSE online_answer.text

\* A call of the assistant: what it is given, the key and the POST's
\* outcome it meets, and, once it has returned, its answer.
AskRecord(op, q, c, k, r, a) ==
  [op |-> op, question |-> q, context |-> c, api_key |-> k, remote |-> r,
   answer |-> a]

NoAsk == [op |-> "none", question |-> <<>>, context |-> NULL,
          api_key |-> NULL,
          remote |-> [kind |-> "exception", status |-> 0, body |-> "none",
                      content |-> "none", text |-> NoContent],
          answer |-> <<>>]

ask_cyber_assistant ==
  /\ ai.op = "call"
  /\ ai' = [ai EXCEPT !.op = "ask",
                      !.answer = AskResult(ai.question, ai.context,
                                           ai.api_key, ai.remote)]
  /\ UNCHANGED <<db, last>>

(* ---------------------------- specification ---------------------------- *)

NoCall == Record("none", "cyber_incidents", NULL, NoRow, NULL, NoFile,
                 "none", 0, 0, <<>>)

Init ==
  /\ db = [t \in Tables |-> <<>>]
  /\ last = NoCall
  /\ ai = NoAsk

Next ==
  \/ create_incident
  \/ create_dataset
  \/ create_ticket
  \/ update_incident_status
  \/ update_dataset_owner
  \/ update_ticket_status
  \/ delete_incident
  \/ delete_dataset
  \/ delete_ticket
  \/ LoadCsv

\* Every call follows the one before it at once.
Spec == Init /\ [][Next]_vars

\* The caller takes the return value of the call it made; what the call was
\* is then forgotten, the tables staying as they are.
Return ==
  /\ last.op # "none"
  /\ last' = NoCall
  /\ UNCHANGED <<db, ai>>

Idle == last.op = "none"

\* The same calls, each one returning to its caller before the next is made.
NextCallReturn ==
  \/ Idle /\ create_incident
  \/ Idle /\ create_dataset
  \/ Idle /\ create_ticket
  \/ Idle /\ update_incident_status
  \/ Idle /\ update_dataset_owner
  \/ Idle /\ update_ticket_status
  \/ Idle /\ delete_incident
  \/ Idle /\ delete_dataset
  \/ Idle /\ delete_ticket
  \/ Idle /\ LoadCsv
  \/ Return

SpecCallReturn == Init /\ [][NextCallReturn]_vars

\* The assistant facade on its own: it reads and writes no table.
NextAI == ask_cyber_assistant

\* The function keeps no state between calls: each behaviour is one call,
\* its inputs drawn at the start.
InitAI ==
  /\ db = [t \in Tables |-> <<>>]
  /\ last = NoCall
  /\ \E q \in Questions, c \in Contexts, k \in ApiKeys, r \in Remotes :
       ai = AskRecord("call", q, c, k, r, <<>>)

SpecAI == InitAI /\ [][NextAI]_vars

(* ------------------------- the store's properties ---------------------- *)

\* The table the last call worked on, as it is now.
Post == db[last.table]

Attrs(r) == <<r.mutable, r.other>>

\* The key values of a batch file as read_csv reads them, the empty cells
\* apart, and the rows of the file that carry a given one.
FileKeyAt(file, i) == ParseCell(ColumnDtype(file.rows), file.rows[i].pk)
FileKeyValues(file) == {FileKeyAt(file, i) : i \in 1..Len(file.rows)} \ {NaN}
RowsWithKey(file, v) == {i \in 1..Len(file.rows) : FileKeyAt(file, i) = v}
FirstRowWithKey(file, v) ==
  CHOOSE i \in RowsWithKey(file, v) : \A j \in RowsWithKey(file, v) : i <= j

Returned == last.op = "load" /\ last.status = "returned" /\ last.file.exists

\* C2: in every reachable state every stored row of every table has a
\* non-null natural key, and no two rows of a table share a natural key.
C2_KeysNonNullUnique ==
  \A t \in Tables : \A i \in 1..Len(db[t]) :
    /\ db[t][i].pk # NULL
    /\ \A j \in 1..Len(db[t]) : db[t][j].pk = db[t][i].pk => i = j

\* A create with the key of a stored row was refused, the table holding two
\* rows.
C2_Witness ==
  /\ last.op = "create" /\ last.status = "false" /\ last.key # NULL
  /\ Len(Post) = 2 /\ last.key \in Keys(Post)

\* C3: a batch load leaves every row the table held before it as it was and
\* where it was, also when the batch carries a row of the same key with other
\* attribute values, and the rows it adds follow them in the order they have
\* in the file.
C3_LoadKeepsRowsAndOrder ==
  last.op = "load" =>
    /\ Len(Post) >= Len(last.pre)
    /\ SubSeq(Post, 1, Len(last.pre)) = last.pre
    /\ LET m == Len(Post) - Len(last.pre)
           n == Len(last.file.rows)
       IN \E g \in [1..m -> 1..n] :
            /\ \A a, b \in 1..m : a < b => g[a] < g[b]
            /\ \A a \in 1..m :
                 /\ Post[Len(last.pre) + a].pk
                      = SqlText(FileKeyAt(last.file, g[a]))
                 /\ Attrs(Post[Len(last.pre) + a])
                      = Attrs(last.file.rows[g[a]])

\* A load returned whose file carried the key of a stored row with other
\* attribute values, and a new row beside it.
C3_Witness ==
  /\ Returned /\ last.inserted = 1 /\ last.skipped = 1
  /\ \E i \in 1..Len(last.file.rows), j \in 1..Len(last.pre) :
       /\ PyStr(FileKeyAt(last.file, i)) = last.pre[j].pk
       /\ Attrs(last.file.rows[i]) # Attrs(last.pre[j])

\* C4: when several rows of a batch share a non-null key the table does not
\* hold yet, the row stored for that key by the load carries the attribute
\* values of the earliest of them in the file.
C4_FirstOccurrenceWins ==
  Returned =>
    \A v \in FileKeyValues(last.file) :
      (Cardinality(RowsWithKey(last.file, v)) >= 2
         /\ PyStr(v) \notin Keys(last.pre))
      => \E i \in 1..Len(Post) :
           /\ Post[i].pk = SqlText(v)
           /\ Attrs(Post[i])
                = Attrs(last.file.rows[FirstRowWithKey(last.file, v)])

\* A load returned having stored one row for a key two rows of its file
\* share.
C4_Witness ==
  /\ Returned /\ last.inserted = 1
  /\ \E v \in FileKeyValues(last.file) :
       /\ Cardinality(RowsWithKey(last.file, v)) = 2
       /\ PyStr(v) \notin Keys(last.pre)
       /\ SqlText(v) \in Keys(Post)

\* C5: a load that returns gives skipped as the number of distinct non-null
\* keys of the file whose string equals a stored key, and inserted as the
\* number of rows appended; rows dropped for an empty key or as duplicates
\* within the file are in neither number, and no row without a key is
\* written.
C5_LoadCounts ==
  Returned =>
    /\ last.skipped
         = Cardinality({v \in FileKeyValues(last.file) :
                          PyStr(v) \in Keys(last.pre)})
    /\ last.inserted = Len(Post) - Len(last.pre)
    /\ last.inserted + last.skipped = Cardinality(FileKeyValues(last.file))
    /\ \A i \in 1..Len(Post) : Post[i].pk # NULL

\* A load returned whose file held a row without a key and a row whose key
\* was stored.
C5_Witness ==
  /\ Returned /\ last.skipped = 1 /\ last.inserted = 0
  /\ \E i \in 1..Len(last.file.rows) : IsNA(last.file.rows[i].pk)

\* C6: a create with a fresh non-null key finds exists(key) false before and
\* true after, returns true and appends its row; a create with a stored key
\* returns false and leaves the table as it was.
C6_CreateContract ==
  (last.op = "create" /\ last.key # NULL) =>
    IF last.key \notin Keys(last.pre)
      THEN /\ ~Exists(last.table, last.pre, last.key)
           /\ last.status = "true"
           /\ Exists(last.table, Post, last.key)
           /\ Post = Append(last.pre, last.row)
      ELSE /\ Exists(last.table, last.pre, last.key)
           /\ last.status = "false"
           /\ Post = last.pre

\* A second create of a stored key, with other attribute values, was
\* refused.
C6_Witness ==
  /\ last.op = "create" /\ last.status = "false" /\ last.key # NULL
  /\ \E i \in 1..Len(Post) :
       Post[i].pk = last.key /\ Attrs(Post[i]) # Attrs(last.row)

\* C7: an update or delete of a key the table does not hold returns false
\* and leaves the table as it was; of a key it holds, returns true and
\* changes the one mutable column of the one row of that key, or removes
\* that row, every other row and column staying as it was.
C7_UpdateDeleteContract ==
  /\ last.op = "update" =>
       IF last.key \notin Keys(last.pre)
         THEN last.status = "false" /\ Post = last.pre
         ELSE /\ last.status = "true"
              /\ Len(Post) = Len(last.pre)
              /\ Cardinality({i \in 1..Len(last.pre) :
                                last.pre[i].pk = last.key}) = 1
              /\ \A i \in 1..Len(last.pre) :
                   IF last.pre[i].pk = last.key
                     THEN Post[i] = [pk |-> last.pre[i].pk,
                                     mutable |-> last.newval,
                                     other |-> last.pre[i].other]
                     ELSE Post[i] = last.pre[i]
  /\ last.op = "delete" =>
       IF last.key \notin Keys(last.pre)
         THEN last.status = "false" /\ Post = last.pre
         ELSE /\ last.status = "true"
              /\ \E i \in 1..Len(last.pre) :
                   /\ last.pre[i].pk = last.key
                   /\ Post = SubSeq(last.pre, 1, i - 1)
                               \o SubSeq(last.pre, i + 1, Len(last.pre))

\* An update of a stored key gave its row a new value, beside another row.
C7_Witness ==
  /\ last.op = "update" /\ last.status = "true" /\ Len(last.pre) = 2
  /\ \E i \in 1..2 : last.pre[i].pk = last.key
                       /\ last.pre[i].mutable # last.newval

\* The file's keys as the table would hold or compare them.
HoldsAKeyOf(rows, file) ==
  \E v \in FileKeyValues(file) :
    PyStr(v) \in Keys(rows) \/ SqlText(v) \in Keys(rows)

\* C1: loading a file into a table that holds none of its keys returns
\* (N, 0), N the number of distinct non-null keys of the file; loading it
\* again at once returns (0, N) and leaves the table as the first load left
\* it.
C1_LoadTwice ==
  [][(/\ last.op = "load" /\ last.file.exists
      /\ ~HoldsAKeyOf(last.pre, last.file)
      /\ last'.op = "load" /\ last'.file = last.file
      /\ last'.table = last.table)
     => (/\ last.status = "returned"
         /\ last.inserted = Cardinality(FileKeyValues(last.file))
         /\ last.skipped = 0
         /\ last'.status = "returned"
         /\ last'.inserted = 0
         /\ last'.skipped = Cardinality(FileKeyValues(last.file))
         /\ db' = db)]_vars

(* ----------------------- the assistant's properties -------------------- *)

Count(x, piece) == Cardinality({i \in 1..Len(x) : x[i] = piece})

\* Whether a question, lower-cased, holds one of the keywords.
Keywords == {"priorit", "first", "phishing", "backlog", "bottleneck"}
KeywordMatches(q) ==
  \E i \in 1..Len(q), kw \in Keywords : Contains(Lower(q[i]), kw)

\* An answer ends with the whole rule-based answer to the call's question
\* and context.
EndsWithOffline(a, q, c) ==
  \E i \in 1..Len(a) : SubSeq(a, i, Len(a)) = _offline_response(q, c)

Offline == ai.op = "ask" /\ ~Truthy(ai.api_key)

\* C8: the rule-based answer, whatever the question and the context, holds
\* exactly one general-guidance block when no keyword matches the question
\* and none when one does, and ends with the disclaimer.
C8_GeneralGuidance ==
  Offline =>
    /\ ~KeywordMatches(ai.question) => Count(ai.answer, GENERAL) = 1
    /\ KeywordMatches(ai.question) => Count(ai.answer, GENERAL) = 0
    /\ ai.answer[Len(ai.answer)] = DISCLAIMER

\* The POST failed: it raised, or came back with another status than 200,
\* or with a body that is no JSON, has no choices, or has a content that is
\* no text.
RemoteFailed ==
  \/ ai.remote.kind = "exception"
  \/ ai.remote.status # 200
  \/ ai.remote.body # "json"
  \/ ai.remote.content \in {"zero", "number"}

\* C9: with a key configured, every failure of the remote call makes the
\* answer the error's text followed by the rule-based answer.
C9_FailureFallsBack ==
  (ai.op = "ask" /\ Truthy(ai.api_key) /\ RemoteFailed) =>
    /\ ai.answer # _offline_response(ai.question, ai.context)
    /\ EndsWithOffline(ai.answer, ai.question, ai.context)

RemoteSucceeded ==
  /\ ai.remote.kind = "response" /\ ai.remote.status = 200
  /\ ai.remote.body = "json"
  /\ ai.remote.content \in {"str", "missing", "null"}

\* The content with the white space at its ends removed, stated apart from
\* strip: the longest run of pieces from the first to the last that is no
\* white space.
Trimmed(x) ==
  LET solid == {i \in 1..Len(x) : x[i] # SPACE} IN
  IF solid = {} THEN <<>>
  ELSE SubSeq(x, CHOOSE i \in solid : \A j \in solid : i <= j,
                 CHOOSE i \in solid : \A j \in solid : j <= i)

\* C10: with a key configured and a successful remote call, the answer is
\* the trimmed content and nothing else, whatever the content, or the
\* empty-response notice when the content is missing, empty or white space
\* only.
C10_SuccessReturnsContent ==
  (ai.op = "ask" /\ Truthy(ai.api_key) /\ RemoteSucceeded) =>
    IF ai.remote.content = "str" /\ Trimmed(ai.remote.text) # <<>>
      THEN ai.answer = Trimmed(ai.remote.text)
      ELSE ai.answer = <<EMPTY_MESSAGE>>

====
